---- MODULE Spec2Model ----
(***************************************************************************)
(* Model of the iced_file_tree widget: the lazily enumerated directory     *)
(* tree (src/src/dir.rs), its file leaves (src/src/file.rs) and the root   *)
(* wrapper (src/src/file_tree.rs), driven by the host's retained-mode      *)
(* passes (build, layout, event, draw) over a persistent widget-state      *)
(* tree.                                                                   *)
(*                                                                         *)
(* Lengths are in tenths of a pixel, so that LINE_HEIGHT = 1.3 is the      *)
(* integer 13.  Times are in units of 100 ms.  An Option is a sequence of  *)
(* length 0 (None) or 1 (Some(x)).                                         *)
(***************************************************************************)
EXTENDS Integers, Sequences, FiniteSets, TLC

\* ------------------------------------------------------------------ bounds
\* The clock never runs past MaxTime (it is read only by Click::new).
MaxTime == 10
\* Scans of one directory path are counted up to MaxScans.
MaxScans == 2
\* The width the host offers to the tree (limits.max().width), in tenths.
Width == 1000

\* -------------------------------------------------------- program constants
LINE_HEIGHT == 13
DefaultTextSize == 16
\* mouse::Click: consecutive when <= 300 ms and < 6.0 px apart.
DoubleClickTime == 3
DoubleClickDistance == 60

None == <<>>
Some(x) == <<x>>

Min(a, b) == IF a <= b THEN a ELSE b

\* <<F(1), ..., F(n)>>
RECURSIVE MapN(_, _)
MapN(F(_), n) == IF n = 0 THEN <<>> ELSE Append(MapN(F, n - 1), F(n))

RECURSIVE Concat(_)
Concat(ss) == IF ss = <<>> THEN <<>> ELSE Head(ss) \o Concat(Tail(ss))

RECURSIVE SumHeights(_, _)
SumHeights(nodes, n) == IF n = 0 THEN 0 ELSE SumHeights(nodes, n - 1) + nodes[n].height

\* ------------------------------------------------------------- file names
\* File names are byte strings, as OsString is.
N_root     == <<114>>                                      \* "r"
N_a_dir    == <<97, 95, 100, 105, 114>>                    \* "a_dir"
N_hidden_b == <<46, 104, 105, 100, 100, 101, 110, 95, 98>> \* ".hidden_b"
N_m_txt    == <<109, 46, 116, 120, 116>>                   \* "m.txt"
N_Z_txt    == <<90, 46, 116, 120, 116>>                    \* "Z.txt"
N_B        == <<66>>                                       \* "B"
N_dev      == <<100, 101, 118>>                            \* "dev"
N_x_txt    == <<120, 46, 116, 120, 116>>                   \* "x.txt"
N_C_d      == <<67, 95, 100>>                              \* "C_d"

RootPath == <<N_root>>
P_a_dir    == <<N_root, N_a_dir>>
P_hidden_b == <<N_root, N_hidden_b>>
P_m_txt    == <<N_root, N_m_txt>>
P_Z_txt    == <<N_root, N_Z_txt>>
P_dev      == <<N_root, N_dev>>
P_B        == <<N_root, N_a_dir, N_B>>
P_x_txt    == <<N_root, N_a_dir, N_x_txt>>
P_C_d      == <<N_root, N_C_d>>

\* Every path the file system may hold, in the order the OS lists them.
Universe == <<P_Z_txt, P_hidden_b, P_x_txt, P_B, P_C_d, P_a_dir, P_dev, P_m_txt>>
Paths == {Universe[i] : i \in DOMAIN Universe} \cup {RootPath}
\* The entry another process replaces while the tree lives: the directory
\* by a file of the same name, and back.
Mutable == {P_B}
Kinds == {"none", "file", "dir", "other"}

InitialFs ==
  [p \in Paths |->
     IF p \in {RootPath, P_a_dir, P_C_d, P_B} THEN "dir"
     ELSE IF p \in {P_hidden_b, P_m_txt, P_Z_txt, P_x_txt} THEN "file"
     ELSE "other"]

\* The file system of the environment that changes the root path.
PathFs ==
  [p \in Paths |->
     IF p \in {RootPath, P_a_dir} THEN "dir"
     ELSE IF p \in {P_m_txt, P_x_txt} THEN "file"
     ELSE "none"]

\* The file system of the hover environment.
HoverFs ==
  [p \in Paths |->
     IF p \in {RootPath, P_C_d} THEN "dir"
     ELSE IF p = P_m_txt THEN "file"
     ELSE "none"]

\* The file system of the double-click environment.
ClickFs ==
  [p \in Paths |->
     IF p = RootPath THEN "dir"
     ELSE IF p \in {P_m_txt, P_Z_txt} THEN "file"
     ELSE "none"]

Parent(p) == SubSeq(p, 1, Len(p) - 1)
\* Path::file_name: the final component.
FileName(p) == p[Len(p)]

Reverse(s) == [i \in 1..Len(s) |-> s[Len(s) + 1 - i]]
\* The orders in which read_dir may yield the entries.
DirOrders == {Universe, Reverse(Universe)}

\* u8::make_ascii_lowercase
LowerByte(b) == IF b \in 65..90 THEN b + 32 ELSE b
LowerName(n) == [i \in 1..Len(n) |-> LowerByte(n[i])]

\* Ord for byte strings: lexicographic.
RECURSIVE BytesLess(_, _)
BytesLess(a, b) ==
  IF b = <<>> THEN FALSE
  ELSE IF a = <<>> THEN TRUE
  ELSE IF Head(a) < Head(b) THEN TRUE
  ELSE IF Head(a) > Head(b) THEN FALSE
  ELSE BytesLess(Tail(a), Tail(b))

StartsWithDot(n) == Len(n) > 0 /\ n[1] = 46

\* SortByName without the sort: the entries in read_dir's order.
SortByNameUnsorted(s) == s

\* slice::sort_by on the lowercased name: a stable sort.
RECURSIVE InsertByName(_, _)
InsertByName(sorted, e) ==
  IF sorted = <<>> THEN <<e>>
  ELSE IF BytesLess(e.name, Head(sorted).name) THEN <<e>> \o sorted
  ELSE <<Head(sorted)>> \o InsertByName(Tail(sorted), e)

RECURSIVE SortByName(_)
SortByName(s) ==
  IF s = <<>> THEN <<>>
  ELSE InsertByName(SortByName(SubSeq(s, 1, Len(s) - 1)), s[Len(s)])

\* std::fs::read_dir: None when the path is no directory, else its entries.
ReadDir(fsx, path, ord) ==
  IF fsx[path] # "dir" THEN None
  ELSE Some(SelectSeq(ord, LAMBDA e : Parent(e) = path /\ fsx[e] # "none"))

\* ---------------------------------------------------------------- widgets
\* A message is a callback applied to a path.
Message(cb, path) == [callback |-> cb, path |-> path]

\* Path::file_stem: the name up to its last dot; the whole name when the
\* only dot leads it or there is none.
RECURSIVE LastDot(_, _)
LastDot(n, i) == IF i = 0 THEN 0 ELSE IF n[i] = 46 THEN i ELSE LastDot(n, i - 1)
FileStem(n) == IF LastDot(n, Len(n)) <= 1 THEN n ELSE SubSeq(n, 1, LastDot(n, Len(n)) - 1)

\* File::new_inner.  on_single_click and on_double_click are the contents
\* of the shared cells: a cell is written only by the builder, before the
\* tree value is handed to the host.
FileNewInner(path, on_single_click, on_double_click, show_extensions) ==
  [kind |-> "file",
   path |-> path,
   name |-> IF show_extensions THEN FileName(path) ELSE FileStem(FileName(path)),
   on_single_click |-> on_single_click,
   on_double_click |-> on_double_click]

\* The path without a final component: the root of the file system.
FsRoot == <<>>
\* Path::file_name: None for a path that has no final component.
PathFileName(path) == IF path = FsRoot THEN None ELSE Some(FileName(path))
\* Dir::new_inner unwinds instead of returning: path.file_name().unwrap()
\* on a None.
DirNewInnerPanics(path) == PathFileName(path) = None

\* Dir::new_inner: both OnceCells of the value start empty.
DirNewInner(path, on_single_click, on_double_click, show_hidden, show_extensions) ==
  [kind |-> "dir",
   path |-> path,
   name |-> FileName(path),
   dirs |-> None,
   files |-> None,
   on_single_click |-> on_single_click,
   on_double_click |-> on_double_click,
   show_hidden |-> show_hidden,
   show_extensions |-> show_extensions]

\* The filter of init_files and init_dirs on the lowercased name.
KeepName(show_hidden, name) == ~show_hidden /\ ~StartsWithDot(name)

\* The entries of one scan that pass the type test and the filter, sorted.
ScanEntries(w, fsx, ord, kind) ==
  LET rd    == ReadDir(fsx, w.path, ord)
      typed == SelectSeq(rd[1], LAMBDA e : fsx[e] = kind)
      named == MapN(LAMBDA i : [entry |-> typed[i],
                                name |-> LowerName(FileName(typed[i]))],
                    Len(typed))
      kept  == SelectSeq(named, LAMBDA en : KeepName(w.show_hidden, en.name))
  IN  IF rd = None THEN <<>> ELSE SortByName(kept)

\* Dir::init_files
InitFiles(w, fsx, ord) ==
  LET files == ScanEntries(w, fsx, ord, "file")
  IN  MapN(LAMBDA i : FileNewInner(files[i].entry, w.on_single_click,
                                   w.on_double_click, w.show_extensions),
           Len(files))

\* Dir::init_dirs
InitDirs(w, fsx, ord) ==
  LET dirs == ScanEntries(w, fsx, ord, "dir")
  IN  MapN(LAMBDA i : DirNewInner(dirs[i].entry, w.on_single_click,
                                  w.on_double_click, w.show_hidden,
                                  w.show_extensions),
           Len(dirs))

\* ------------------------------------------------- persistent widget state
\* dir.rs State::default
DirStateDefault == [open |-> FALSE, dirs |-> None, files |-> None]
\* file.rs State::default
FileStateDefault == [last_click |-> None, line_height |-> None]

\* Widget::tag: the type of the state.
Tag(w) == IF w.kind = "dir" THEN "dir::State" ELSE "file::State"
\* Widget::state
WidgetState(w) == IF w.kind = "dir" THEN DirStateDefault ELSE FileStateDefault

\* What a pass reads from its environment: the file system as the directory
\* scan sees it (fsD), as the later file scan sees it (fsF), and the order
\* read_dir yields entries in.
Io(fsD, fsF, ord) == [fsD |-> fsD, fsF |-> fsF, ord |-> ord]

\* CellDirs without the memoization: every call enumerates.
CellDirsRescan(w, state, io) == Some(InitDirs(w, io.fsD, io.ord))

\* CellDirs that enumerates again when the cached directories were built
\* under another show_hidden setting than the value's.
CellDirsRefiltered(w, state, io) ==
  IF /\ state.dirs # None
     /\ \A i \in 1..Len(state.dirs[1]) : state.dirs[1][i].show_hidden = w.show_hidden
  THEN state.dirs
  ELSE Some(InitDirs(w, io.fsD, io.ord))
\* state.dirs.get_or_init(|| self.init_dirs())
CellDirs(w, state, io) ==
  IF state.dirs # None THEN state.dirs ELSE Some(InitDirs(w, io.fsD, io.ord))
\* state.files.get_or_init(|| self.init_files())
CellFiles(w, state, io) ==
  IF state.files # None THEN state.files ELSE Some(InitFiles(w, io.fsF, io.ord))

\* The open branch of Dir::init_children: a cell of the value that is empty
\* is filled from the state's cell (sd, sf: the state's cells once
\* initialised); a filled cell of the value is returned as it is and the
\* state's cell is not touched.
InitChildrenOpen(w, state, sd, sf) ==
  [w |-> [w EXCEPT !.dirs = IF @ # None THEN @ ELSE sd,
                   !.files = IF @ # None THEN @ ELSE sf],
   state |-> [state EXCEPT !.dirs = IF w.dirs # None THEN @ ELSE sd,
                           !.files = IF w.files # None THEN @ ELSE sf],
   children |-> (IF w.dirs # None THEN w.dirs ELSE sd)[1]
                \o (IF w.files # None THEN w.files ELSE sf)[1],
   scans |-> (IF w.dirs = None /\ state.dirs = None
              THEN {<<w.path, "dirs">>} ELSE {})
             \cup (IF w.files = None /\ state.files = None
                   THEN {<<w.path, "files">>} ELSE {})]

\* Dir::init_children without the test of the open flag.
InitChildrenEager(w, state, io) ==
  InitChildrenOpen(w, state, CellDirs(w, state, io), CellFiles(w, state, io))
\* Dir::init_children
InitChildren(w, state, io) ==
  IF ~state.open
  THEN [w |-> w, state |-> state, children |-> <<>>, scans |-> {}]
  ELSE InitChildrenOpen(w, state, CellDirs(w, state, io), CellFiles(w, state, io))

\* Dir::get_children: what the value's own cells hold.
GetChildren(w) ==
  (IF w.dirs = None THEN <<>> ELSE w.dirs[1])
  \o (IF w.files = None THEN <<>> ELSE w.files[1])

\* Widget::children: Dir's, and the default (none) of File.
WidgetChildren(w) == IF w.kind = "dir" THEN GetChildren(w) ELSE <<>>

\* Tree::new
RECURSIVE TreeNew(_)
TreeNew(w) ==
  [tag |-> Tag(w),
   state |-> WidgetState(w),
   children |-> MapN(LAMBDA i : TreeNew(WidgetChildren(w)[i]),
                     Len(WidgetChildren(w)))]

RECURSIVE TreeDiff(_, _, _), DirDiff(_, _, _), DiffChildren(_, _, _)

\* Tree::diff_children, diffed being the reconciled common prefix: truncate,
\* keep the reconciled prefix, extend with new state.
DiffChildrenWith(tree, new, diffed) ==
  [tree |-> [tree EXCEPT !.children =
               MapN(LAMBDA i : IF i <= Len(diffed) THEN diffed[i].tree
                               ELSE TreeNew(new[i]), Len(new))],
   scans |-> UNION {diffed[i].scans : i \in 1..Len(diffed)}]

\* Tree::diff_children
DiffChildren(tree, new, io) ==
  DiffChildrenWith(tree, new,
                   MapN(LAMBDA i : TreeDiff(tree.children[i], new[i], io),
                        Min(Len(tree.children), Len(new))))

\* What Tree::diff keeps of Dir::diff: the tree.
DiffOutcome(d) == [tree |-> d.tree, scans |-> d.scans]

\* Tree::diff: same tag, the widget reconciles (File keeps the default
\* Widget::diff, which does nothing); else fresh state.
TreeDiff(tree, w, io) ==
  IF tree.tag # Tag(w) THEN [tree |-> TreeNew(w), scans |-> {}]
  ELSE IF w.kind = "dir" THEN DiffOutcome(DirDiff(w, tree, io))
  ELSE [tree |-> tree, scans |-> {}]

\* Dir::diff, ic being init_children(state) and dc diff_children's outcome.
DirDiffOutcome(ic, dc) ==
  [w |-> ic.w, tree |-> dc.tree, scans |-> ic.scans \cup dc.scans]

\* Dir::diff, ic being init_children(state).
DirDiffWith(ic, tree, io) ==
  DirDiffOutcome(ic, DiffChildren([tree EXCEPT !.state = ic.state], ic.children, io))

\* Dir::diff
DirDiff(w, tree, io) == DirDiffWith(InitChildren(w, tree.state, io), tree, io)

\* ----------------------------------------------------------------- layout
\* layout::Node: a rectangle relative to its parent, and child nodes.
Node(width, height, children) ==
  [x |-> 0, y |-> 0, width |-> width, height |-> height, children |-> children]
\* Node::translate
Translate(node, dx, dy) == [node EXCEPT !.x = @ + dx, !.y = @ + dy]

\* (renderer.default_size().0 * 1.3).ceil(), in tenths of a pixel.
TextLineHeight == ((DefaultTextSize * 13 + 9) \div 10) * 10

\* File::layout
FileLayout(w, tree, width) ==
  [tree |-> [tree EXCEPT !.state.line_height = IF @ = None THEN Some(TextLineHeight) ELSE @],
   node |-> Node(width,
                 IF tree.state.line_height = None THEN TextLineHeight
                 ELSE tree.state.line_height[1],
                 <<>>),
   scans |-> {}]

RECURSIVE DirLayout(_, _, _, _)

\* DirLayoutPlace with a spacing of one unit after every child.
DirLayoutPlaceSpaced(d, lay, width) ==
  [w |-> d.w,
   tree |-> [d.tree EXCEPT !.children =
               MapN(LAMBDA i : IF i <= Len(lay) THEN lay[i].tree ELSE d.tree.children[i],
                    Len(d.tree.children))],
   node |-> Node(width,
                 LINE_HEIGHT + Len(lay)
                 + SumHeights(MapN(LAMBDA i : lay[i].node, Len(lay)), Len(lay)),
                 MapN(LAMBDA i :
                        Translate(lay[i].node, LINE_HEIGHT,
                                  LINE_HEIGHT + (i - 1)
                                  + SumHeights(MapN(LAMBDA j : lay[j].node, i - 1), i - 1)),
                      Len(lay))),
   scans |-> d.scans \cup UNION {lay[i].scans : i \in 1..Len(lay)}]
\* The tail of Dir::layout: lay holds the children's layouts, each is
\* translated to x = LINE_HEIGHT and to the y the rows above it end at.
DirLayoutPlace(d, lay, width) ==
  [w |-> d.w,
   tree |-> [d.tree EXCEPT !.children =
               MapN(LAMBDA i : IF i <= Len(lay) THEN lay[i].tree ELSE d.tree.children[i],
                    Len(d.tree.children))],
   node |-> Node(width,
                 LINE_HEIGHT + SumHeights(MapN(LAMBDA i : lay[i].node, Len(lay)), Len(lay)),
                 MapN(LAMBDA i :
                        Translate(lay[i].node, LINE_HEIGHT,
                                  LINE_HEIGHT
                                  + SumHeights(MapN(LAMBDA j : lay[j].node, i - 1), i - 1)),
                      Len(lay))),
   scans |-> d.scans \cup UNION {lay[i].scans : i \in 1..Len(lay)}]

\* The open branch of Dir::layout, d being the outcome of self.diff(tree):
\* get_children() zipped with the tree's children, each laid out.
DirLayoutOpen(d, width, io) ==
  DirLayoutPlace(d,
    MapN(LAMBDA i :
           IF GetChildren(d.w)[i].kind = "dir"
           THEN DirLayout(GetChildren(d.w)[i], d.tree.children[i], width, io)
           ELSE FileLayout(GetChildren(d.w)[i], d.tree.children[i], width),
         Min(Len(GetChildren(d.w)), Len(d.tree.children))),
    width)

\* Dir::layout without the self.diff(tree) of the open branch.
DirLayoutUndiffed(w, tree, width, io) ==
  IF ~tree.state.open
  THEN [w |-> w, tree |-> tree, node |-> Node(width, LINE_HEIGHT, <<>>), scans |-> {}]
  ELSE DirLayoutOpen([w |-> w, tree |-> tree, scans |-> {}], width, io)
\* Dir::layout with a closed directory as high as the child states it still
\* holds.
DirLayoutClosedTall(w, tree, width, io) ==
  IF ~tree.state.open
  THEN [w |-> w, tree |-> tree,
        node |-> Node(width, LINE_HEIGHT * (1 + Len(tree.children)), <<>>),
        scans |-> {}]
  ELSE DirLayoutOpen(DirDiff(w, tree, io), width, io)
\* Dir::layout
DirLayout(w, tree, width, io) ==
  IF ~tree.state.open
  THEN [w |-> w, tree |-> tree, node |-> Node(width, LINE_HEIGHT, <<>>), scans |-> {}]
  ELSE DirLayoutOpen(DirDiff(w, tree, io), width, io)

\* ----------------------------------------------------------------- events
\* Layout::bounds: the node's rectangle in absolute coordinates, (ox, oy)
\* being the absolute position of its parent.
Bounds(node, ox, oy) ==
  [x |-> ox + node.x, y |-> oy + node.y, width |-> node.width, height |-> node.height]

\* Rectangle::contains
Contains(b, p) ==
  /\ b.x <= p.x /\ p.x < b.x + b.width
  /\ b.y <= p.y /\ p.y < b.y + b.height

LeftPress == "ButtonPressed(Left)"
CursorMoved == "CursorMoved"
\* Mouse events that are no left press.
OtherEvents == {CursorMoved, "ButtonPressed(Right)", "ButtonReleased(Left)"}

\* mouse::click::Kind::next
KindNext(kind) ==
  CASE kind = "Single" -> "Double"
    [] kind = "Double" -> "Triple"
    [] OTHER -> "Double"

\* mouse::Click::is_consecutive
IsConsecutive(previous, position, time) ==
  /\ (position.x - previous.position.x) * (position.x - previous.position.x)
     + (position.y - previous.position.y) * (position.y - previous.position.y)
       < DoubleClickDistance * DoubleClickDistance
  /\ time > previous.time
  /\ time - previous.time <= DoubleClickTime

\* mouse::Click::new, time being Instant::now()
ClickNew(position, button, previous, time) ==
  [kind |-> IF previous # None
               /\ IsConsecutive(previous[1], position, time)
               /\ button = previous[1].button
            THEN KindNext(previous[1].kind)
            ELSE "Single",
   button |-> button,
   position |-> position,
   time |-> time]

\* What an on_event call leaves in the record of the pass.
Call(w, b, status, toggled) ==
  [path |-> w.path, widget |-> w.kind, bounds |-> b, status |-> status,
   toggled |-> toggled]

\* FileClicked with the single-click message left out of a double click.
FileClickedSingleUnlessDouble(w, tree, b, new_click) ==
  [tree |-> IF w.on_double_click # None
            THEN [tree EXCEPT !.state.last_click = Some(new_click)]
            ELSE tree,
   status |-> "Captured",
   msgs |-> (IF w.on_single_click # None
                /\ ~(w.on_double_click # None /\ new_click.kind = "Double")
             THEN <<Message(w.on_single_click[1], w.path)>> ELSE <<>>)
            \o (IF w.on_double_click # None /\ new_click.kind = "Double"
                THEN <<Message(w.on_double_click[1], w.path)>> ELSE <<>>),
   invalidate |-> FALSE,
   clock |-> w.on_double_click # None,
   scans |-> {},
   calls |-> {Call(w, b, "Captured", FALSE)}]

\* FileClicked with the double-click message on every repeated click.
FileClickedDoubleOnRepeat(w, tree, b, new_click) ==
  [tree |-> IF w.on_double_click # None
            THEN [tree EXCEPT !.state.last_click = Some(new_click)]
            ELSE tree,
   status |-> "Captured",
   msgs |-> (IF w.on_single_click # None
             THEN <<Message(w.on_single_click[1], w.path)>> ELSE <<>>)
            \o (IF w.on_double_click # None /\ new_click.kind # "Single"
                THEN <<Message(w.on_double_click[1], w.path)>> ELSE <<>>),
   invalidate |-> FALSE,
   clock |-> w.on_double_click # None,
   scans |-> {},
   calls |-> {Call(w, b, "Captured", FALSE)}]

\* FileClicked with last_click recorded only for a double click.
FileClickedRecordDouble(w, tree, b, new_click) ==
  [tree |-> IF w.on_double_click # None /\ new_click.kind = "Double"
            THEN [tree EXCEPT !.state.last_click = Some(new_click)]
            ELSE tree,
   status |-> "Captured",
   msgs |-> (IF w.on_single_click # None
             THEN <<Message(w.on_single_click[1], w.path)>> ELSE <<>>)
            \o (IF w.on_double_click # None /\ new_click.kind = "Double"
                THEN <<Message(w.on_double_click[1], w.path)>> ELSE <<>>),
   invalidate |-> FALSE,
   clock |-> w.on_double_click # None,
   scans |-> {},
   calls |-> {Call(w, b, "Captured", FALSE)}]

\* FileClicked publishing whatever the single-click cell holds, set or not.
FileClickedUnchecked(w, tree, b, new_click) ==
  [tree |-> IF w.on_double_click # None
            THEN [tree EXCEPT !.state.last_click = Some(new_click)]
            ELSE tree,
   status |-> "Captured",
   msgs |-> <<Message(w.on_single_click, w.path)>>
            \o (IF w.on_double_click # None /\ new_click.kind = "Double"
                THEN <<Message(w.on_double_click[1], w.path)>> ELSE <<>>),
   invalidate |-> FALSE,
   clock |-> w.on_double_click # None,
   scans |-> {},
   calls |-> {Call(w, b, "Captured", FALSE)}]

\* FileClicked capturing the press only when a callback is set.
FileClickedCapturedIfSet(w, tree, b, new_click) ==
  [tree |-> IF w.on_double_click # None
            THEN [tree EXCEPT !.state.last_click = Some(new_click)]
            ELSE tree,
   status |-> IF w.on_single_click # None \/ w.on_double_click # None
              THEN "Captured" ELSE "Ignored",
   msgs |-> (IF w.on_single_click # None
             THEN <<Message(w.on_single_click[1], w.path)>> ELSE <<>>)
            \o (IF w.on_double_click # None /\ new_click.kind = "Double"
                THEN <<Message(w.on_double_click[1], w.path)>> ELSE <<>>),
   invalidate |-> FALSE,
   clock |-> w.on_double_click # None,
   scans |-> {},
   calls |-> {Call(w, b, IF w.on_single_click # None \/ w.on_double_click # None
                         THEN "Captured" ELSE "Ignored", FALSE)}]

\* The accepted branch of File::on_event, new_click being the Click made
\* when a double-click callback is set.
FileClicked(w, tree, b, new_click) ==
  [tree |-> IF w.on_double_click # None
            THEN [tree EXCEPT !.state.last_click = Some(new_click)]
            ELSE tree,
   status |-> "Captured",
   msgs |-> (IF w.on_single_click # None
             THEN <<Message(w.on_single_click[1], w.path)>> ELSE <<>>)
            \o (IF w.on_double_click # None /\ new_click.kind = "Double"
                THEN <<Message(w.on_double_click[1], w.path)>> ELSE <<>>),
   invalidate |-> FALSE,
   clock |-> w.on_double_click # None,
   scans |-> {},
   calls |-> {Call(w, b, "Captured", FALSE)}]

\* File::on_event accepting whatever mouse event happens inside the row.
FileOnEventAnyKind(w, tree, event, b, time) ==
  IF /\ event.cursor # None
     /\ Contains(b, event.cursor[1])
  THEN FileClicked(w, tree, b,
                   ClickNew(event.cursor[1], "Left", tree.state.last_click, time))
  ELSE [tree |-> tree, status |-> "Ignored", msgs |-> <<>>,
        invalidate |-> FALSE, clock |-> FALSE, scans |-> {},
        calls |-> {Call(w, b, "Ignored", FALSE)}]
\* File::on_event.  event is [kind, cursor], cursor an Option of a point.
FileOnEvent(w, tree, event, b, time) ==
  IF /\ event.cursor # None
     /\ event.kind = LeftPress
     /\ Contains(b, event.cursor[1])
  THEN FileClicked(w, tree, b,
                   ClickNew(event.cursor[1], "Left", tree.state.last_click, time))
  ELSE [tree |-> tree, status |-> "Ignored", msgs |-> <<>>,
        invalidate |-> FALSE, clock |-> FALSE, scans |-> {},
        calls |-> {Call(w, b, "Ignored", FALSE)}]

\* Status::merge folded over the children's results.
MergeStatus(r) ==
  IF \E i \in 1..Len(r) : r[i].status = "Captured" THEN "Captured" ELSE "Ignored"

\* HeaderPressed with the row's last line excluded (< for <=).
HeaderPressedStrict(event, b) ==
  /\ event.kind = LeftPress
  /\ event.cursor # None
  /\ Contains(b, event.cursor[1])
  /\ event.cursor[1].y - b.y < LINE_HEIGHT

\* The header test of Dir::on_event.
HeaderPressed(event, b) ==
  /\ event.kind = LeftPress
  /\ event.cursor # None
  /\ Contains(b, event.cursor[1])
  /\ event.cursor[1].y - b.y <= LINE_HEIGHT

\* DirForwarded with the children after the first capturing one left out.
DirForwardedUntilCaptured(w, tree, b, ic, r) ==
  LET k == IF \E i \in 1..Len(r) : r[i].status = "Captured"
           THEN CHOOSE i \in 1..Len(r) :
                  /\ r[i].status = "Captured"
                  /\ \A j \in 1..(i - 1) : r[j].status # "Captured"
           ELSE Len(r)
  IN  [w |-> ic.w,
       tree |-> [tree EXCEPT !.state = ic.state,
                             !.children =
                               MapN(LAMBDA i : IF i <= k THEN r[i].tree
                                               ELSE tree.children[i],
                                    Len(tree.children))],
       status |-> MergeStatus(SubSeq(r, 1, k)),
       msgs |-> Concat(MapN(LAMBDA i : r[i].msgs, k)),
       invalidate |-> \E i \in 1..k : r[i].invalidate,
       clock |-> \E i \in 1..k : r[i].clock,
       scans |-> ic.scans \cup UNION {r[i].scans : i \in 1..k},
       calls |-> {Call(w, b, MergeStatus(SubSeq(r, 1, k)), FALSE)}
                 \cup UNION {r[i].calls : i \in 1..k}]
\* The tail of Dir::on_event: r holds the children's results in order.
DirForwarded(w, tree, b, ic, r) ==
  [w |-> ic.w,
   tree |-> [tree EXCEPT !.state = ic.state,
                         !.children =
                           MapN(LAMBDA i : IF i <= Len(r) THEN r[i].tree
                                           ELSE tree.children[i],
                                Len(tree.children))],
   status |-> MergeStatus(r),
   msgs |-> Concat(MapN(LAMBDA i : r[i].msgs, Len(r))),
   invalidate |-> \E i \in 1..Len(r) : r[i].invalidate,
   clock |-> \E i \in 1..Len(r) : r[i].clock,
   scans |-> ic.scans \cup UNION {r[i].scans : i \in 1..Len(r)},
   calls |-> {Call(w, b, MergeStatus(r), FALSE)}
             \cup UNION {r[i].calls : i \in 1..Len(r)}]

RECURSIVE DirOnEvent(_, _, _, _, _, _, _, _)

\* The forwarding branch of Dir::on_event, ic being init_children(state):
\* the children zipped with their states and their layouts.
DirForward(w, tree, event, node, b, time, io, ic) ==
  DirForwarded(w, tree, b, ic,
    MapN(LAMBDA i :
           IF ic.children[i].kind = "dir"
           THEN DirOnEvent(ic.children[i], tree.children[i], event,
                           node.children[i], b.x, b.y, time, io)
           ELSE FileOnEvent(ic.children[i], tree.children[i], event,
                            Bounds(node.children[i], b.x, b.y), time),
         Min(Min(Len(ic.children), Len(tree.children)), Len(node.children))))

\* DirToggled without shell.invalidate_layout().
DirToggledKeepLayout(w, tree, b) ==
  [w |-> w,
   tree |-> [tree EXCEPT !.state.open = ~@],
   status |-> "Captured", msgs |-> <<>>, invalidate |-> FALSE,
   clock |-> FALSE, scans |-> {},
   calls |-> {Call(w, b, "Captured", TRUE)}]

\* The header branch of Dir::on_event: state.open ^= true,
\* shell.invalidate_layout(), return Captured.
DirToggled(w, tree, b) ==
  [w |-> w,
   tree |-> [tree EXCEPT !.state.open = ~@],
   status |-> "Captured", msgs |-> <<>>, invalidate |-> TRUE,
   clock |-> FALSE, scans |-> {},
   calls |-> {Call(w, b, "Captured", TRUE)}]

\* The header branch going on to the children of an open directory before
\* it returns: fwd is what the forwarding branch does.
DirToggledAfter(w, b, fwd) ==
  [w |-> fwd.w,
   tree |-> [fwd.tree EXCEPT !.state.open = ~@],
   status |-> "Captured", msgs |-> fwd.msgs, invalidate |-> TRUE,
   clock |-> fwd.clock, scans |-> fwd.scans,
   calls |-> {Call(w, b, "Captured", TRUE)}
             \cup {c \in fwd.calls : c.path # w.path}]
\* Dir::on_event without the early return of the header branch.
DirOnEventToggleAndForward(w, tree, event, node, ox, oy, time, io) ==
  IF HeaderPressed(event, Bounds(node, ox, oy)) /\ ~tree.state.open
  THEN DirToggled(w, tree, Bounds(node, ox, oy))
  ELSE IF ~tree.state.open
  THEN [w |-> w, tree |-> tree, status |-> "Ignored", msgs |-> <<>>,
        invalidate |-> FALSE, clock |-> FALSE, scans |-> {},
        calls |-> {Call(w, Bounds(node, ox, oy), "Ignored", FALSE)}]
  ELSE IF HeaderPressed(event, Bounds(node, ox, oy))
  THEN DirToggledAfter(w, Bounds(node, ox, oy),
                       DirForward(w, tree, event, node, Bounds(node, ox, oy), time, io,
                                  InitChildren(w, tree.state, io)))
  ELSE DirForward(w, tree, event, node, Bounds(node, ox, oy), time, io,
                  InitChildren(w, tree.state, io))
\* Dir::on_event
DirOnEvent(w, tree, event, node, ox, oy, time, io) ==
  IF HeaderPressed(event, Bounds(node, ox, oy))
  THEN DirToggled(w, tree, Bounds(node, ox, oy))
  ELSE IF ~tree.state.open
  THEN [w |-> w, tree |-> tree, status |-> "Ignored", msgs |-> <<>>,
        invalidate |-> FALSE, clock |-> FALSE, scans |-> {},
        calls |-> {Call(w, Bounds(node, ox, oy), "Ignored", FALSE)}]
  ELSE DirForward(w, tree, event, node, Bounds(node, ox, oy), time, io,
                  InitChildren(w, tree.state, io))

\* ------------------------------------------------------------------- draw
\* Rectangle::intersects
Intersects(a, b) ==
  /\ a.x < b.x + b.width /\ b.x < a.x + a.width
  /\ a.y < b.y + b.height /\ b.y < a.y + a.height

Max(a, b) == IF a >= b THEN a ELSE b

\* Rectangle::intersection: None when the overlap is empty.
Intersection(a, b) ==
  IF Min(a.x + a.width, b.x + b.width) - Max(a.x, b.x) > 0
     /\ Min(a.y + a.height, b.y + b.height) - Max(a.y, b.y) > 0
  THEN Some([x |-> Max(a.x, b.x), y |-> Max(a.y, b.y),
             width |-> Min(a.x + a.width, b.x + b.width) - Max(a.x, b.x),
             height |-> Min(a.y + a.height, b.y + b.height) - Max(a.y, b.y)])
  ELSE None

\* The tail of Dir::draw: r holds what each child's draw did (nothing for a
\* child the viewport filter skipped).
DirDrawn(w, tree, ic, r) ==
  [w |-> ic.w,
   tree |-> [tree EXCEPT !.state = ic.state,
                         !.children =
                           MapN(LAMBDA i : IF i <= Len(r) THEN r[i].tree
                                           ELSE tree.children[i],
                                Len(tree.children))],
   drawn |-> {w.path} \cup UNION {r[i].drawn : i \in 1..Len(r)},
   scans |-> ic.scans \cup UNION {r[i].scans : i \in 1..Len(r)}]

RECURSIVE DirDraw(_, _, _, _, _, _, _)

\* DirDrawChildren without the viewport filter: every child is drawn.
DirDrawChildrenUnfiltered(w, tree, node, b, viewport, io, ic) ==
  DirDrawn(w, tree, ic,
    MapN(LAMBDA i :
           IF GetChildren(ic.w)[i].kind = "dir"
           THEN [tree |-> tree.children[i],
                 drawn |-> {GetChildren(ic.w)[i].path}, scans |-> {}]
           ELSE [tree |-> tree.children[i], drawn |-> {GetChildren(ic.w)[i].path},
                 scans |-> {}],
         IF ic.children = <<>> THEN 0
         ELSE Min(Min(Len(GetChildren(ic.w)), Len(tree.children)),
                  Len(node.children))))
\* Dir::draw below the header, ic being init_children(state): the children
\* of get_children() zipped with their states and layouts, those whose
\* bounds intersect the viewport drawn (File::draw paints its row).
DirDrawChildren(w, tree, node, b, viewport, io, ic) ==
  DirDrawn(w, tree, ic,
    MapN(LAMBDA i :
           IF ~Intersects(Bounds(node.children[i], b.x, b.y), viewport)
           THEN [tree |-> tree.children[i], drawn |-> {}, scans |-> {}]
           ELSE IF GetChildren(ic.w)[i].kind = "dir"
           THEN DirDraw(GetChildren(ic.w)[i], tree.children[i], node.children[i],
                        b.x, b.y, viewport, io)
           ELSE [tree |-> tree.children[i], drawn |-> {GetChildren(ic.w)[i].path},
                 scans |-> {}],
         IF ic.children = <<>> THEN 0
         ELSE Min(Min(Len(GetChildren(ic.w)), Len(tree.children)),
                  Len(node.children))))

\* Dir::draw.  drawn is the set of paths whose draw painted.
DirDraw(w, tree, node, ox, oy, viewport, io) ==
  IF Intersection(Bounds(node, ox, oy), viewport) = None
  THEN [w |-> w, tree |-> tree, drawn |-> {}, scans |-> {}]
  ELSE DirDrawChildren(w, tree, node, Bounds(node, ox, oy), viewport, io,
                       InitChildren(w, tree.state, io))

\* -------------------------------------------------------------- the root
\* FileTree::new unwinds: read_dir succeeded and Dir::new_inner panics.
FileTreeNewPanics(fsx, path) ==
  ReadDir(fsx, path, Universe) # None /\ DirNewInnerPanics(path)
\* FileTree::new without the read_dir test: a tree on any path.
FileTreeNewUnchecked(fsx, path) ==
  Some(DirNewInner(path, None, None, FALSE, TRUE))
\* FileTree::new: None when read_dir fails on the path, else the tree.
FileTreeNew(fsx, path) ==
  IF ReadDir(fsx, path, Universe) = None THEN None
  ELSE Some(DirNewInner(path, None, None, FALSE, TRUE))
\* FileTree::on_single_click
OnSingleClick(ft, f) == [ft EXCEPT !.on_single_click = Some(f)]
\* FileTree::on_double_click
OnDoubleClick(ft, f) == [ft EXCEPT !.on_double_click = Some(f)]
\* FileTree::hidden_files
HiddenFiles(ft, show_hidden) == [ft EXCEPT !.show_hidden = show_hidden]
\* FileTree::file_extensions
FileExtensions(ft, show_extensions) == [ft EXCEPT !.show_extensions = show_extensions]

\* What the application's view() passes to the builder.
Config(show_hidden, show_extensions, on_single_click, on_double_click) ==
  [show_hidden |-> show_hidden, show_extensions |-> show_extensions,
   on_single_click |-> on_single_click, on_double_click |-> on_double_click]
Configs ==
  {Config(FALSE, TRUE, Some("S1"), None),
   Config(TRUE, TRUE, Some("S1"), None),
   Config(FALSE, FALSE, Some("S2"), None),
   Config(FALSE, TRUE, None, None)}
\* The configurations of the double-click environment.
ClickConfigs ==
  {Config(FALSE, TRUE, s, d) : s \in {None, Some("S1")}, d \in {None, Some("D1")}}

\* The builder calls for the callbacks a configuration sets.
WithCallbacks(ft, cfg) ==
  IF cfg.on_single_click = None /\ cfg.on_double_click = None THEN ft
  ELSE IF cfg.on_double_click = None THEN OnSingleClick(ft, cfg.on_single_click[1])
  ELSE IF cfg.on_single_click = None THEN OnDoubleClick(ft, cfg.on_double_click[1])
  ELSE OnDoubleClick(OnSingleClick(ft, cfg.on_single_click[1]), cfg.on_double_click[1])

\* The tree value view() returns for a path and a configuration:
\* FileTree::new, unwrapped, and the builder calls the configuration asks
\* for.
ViewTreeAt(fsx, path, cfg) ==
  FileExtensions(HiddenFiles(WithCallbacks(FileTreeNew(fsx, path)[1], cfg),
                             cfg.show_hidden),
                 cfg.show_extensions)
\* The tree value on the root path.
ViewTree(fsx, cfg) == ViewTreeAt(fsx, RootPath, cfg)

\* FileTree does not override Widget::diff: the default leaves the tree as
\* it is.
FileTreeDiff(ft, t) == t

\* FileTree::layout
FileTreeLayout(ft, t, width, io) == DirLayout(ft, t, width, io)

\* FileTree::on_event
FileTreeOnEvent(ft, t, event, node, time, io) ==
  DirOnEvent(ft, t, event, node, 0, 0, time, io)

\* FileTree::draw
FileTreeDraw(ft, t, node, viewport, io) ==
  IF Intersection(Bounds(node, 0, 0), viewport) = None
  THEN [w |-> ft, tree |-> t, drawn |-> {}, scans |-> {}]
  ELSE DirDraw(ft, t, node, 0, 0, Intersection(Bounds(node, 0, 0), viewport)[1], io)

\* -------------------------------------------------------------- ErrorFile
\* ErrorFile::new_inner
ErrorFileNewInner(path) == [kind |-> "error", path |-> path]
\* err::State (derive Default)
ErrorFileStateDefault == [line_height |-> None]
\* ErrorFile::tag
ErrorFileTag == "err::State"
\* ErrorFile keeps the default Widget::children: no child.
ErrorFileChildren(w) == <<>>
\* Tree::new of an ErrorFile
ErrorFileTreeNew(w) ==
  [tag |-> ErrorFileTag, state |-> ErrorFileStateDefault,
   children |-> ErrorFileChildren(w)]

\* ErrorFile::layout
ErrorFileLayout(w, tree, width) ==
  [tree |-> [tree EXCEPT !.state.line_height = IF @ = None THEN Some(TextLineHeight) ELSE @],
   node |-> Node(width,
                 IF tree.state.line_height = None THEN TextLineHeight
                 ELSE tree.state.line_height[1],
                 <<>>)]

\* An ErrorFile that takes the press inside its row, as a File does.
ErrorFileOnEventAsRow(w, tree, event, b) ==
  [tree |-> tree,
   status |-> IF event.cursor # None /\ event.kind = LeftPress
                 /\ Contains(b, event.cursor[1])
              THEN "Captured" ELSE "Ignored",
   msgs |-> <<>>, invalidate |-> FALSE,
   calls |-> {Call(w, b, "Ignored", FALSE)}]
\* ErrorFile keeps the default Widget::on_event: Status::Ignored, nothing
\* published, the state left alone.
ErrorFileOnEvent(w, tree, event, b) ==
  [tree |-> tree, status |-> "Ignored", msgs |-> <<>>, invalidate |-> FALSE,
   calls |-> {Call(w, b, "Ignored", FALSE)}]

\* ErrorFile::draw: the row of the entry (the line height is read from the
\* state the layout filled).
ErrorFileDraw(w, tree, node) ==
  [tree |-> tree,
   drawn |-> IF tree.state.line_height # None THEN {w.path} ELSE {}]

\* ------------------------------------------------------------------ state
VARIABLES
  fs,           \* the file system: the kind of every path
  root,         \* the FileTree value of the current view
  tree,         \* the host's persistent widget tree (Tree)
  layout,       \* the layout the host computed last (Node)
  layoutValid,  \* FALSE once the shell was told to invalidate the layout
  now,          \* the clock, as last read by Click::new
  scanned,      \* per path, how often init_dirs and init_files read it, and
                \* which enumeration was the first to fail
  last          \* what the pass in flight did and published

vars == <<fs, root, tree, layout, layoutValid, now, scanned, last>>

\* The record of a pass.
Pass(op, event, status, msgs, calls, drawn, scans) ==
  [op |-> op, event |-> event, status |-> status, msgs |-> msgs,
   calls |-> calls, drawn |-> drawn, scans |-> scans]
Idle == Pass("idle", None, "Ignored", <<>>, {}, {}, {})

\* How far the clock may have run on between two reads.
ClockSteps == {DoubleClickTime, DoubleClickTime + 1}

\* A pass that scans reads the file system in one of read_dir's orders, and
\* another process may change the file system between the two scans; a pass
\* that scans nothing reads neither.
FsAfter(f) == {f} \cup {[f EXCEPT ![p] = k] : p \in Mutable, k \in {"file", "dir"}}
IoQuiet == Io(fs, fs, Universe)
Ios(scans) ==
  IF scans = {} THEN {IoQuiet}
  ELSE {Io(fs, f, ord) : f \in FsAfter(fs), ord \in DirOrders}
\* The clock runs on only where Click::new reads it.
Clocks(read) == IF read THEN {now + dt : dt \in ClockSteps} ELSE {now}

CanCount(scans) == \A s \in scans : scanned[s[1]][s[2]] < MaxScans
\* A scan of the pass found its path to be no directory: read_dir failed.
ScanFailed(scans, io, p) ==
  \/ <<p, "dirs">> \in scans /\ io.fsD[p] # "dir"
  \/ <<p, "files">> \in scans /\ io.fsF[p] # "dir"
\* The counts after the scans of a pass; failed keeps the number of the
\* first enumeration of the path that failed (0: none has).
Count(scans, io) ==
  [p \in Paths |->
     [dirs  |-> scanned[p].dirs + (IF <<p, "dirs">> \in scans THEN 1 ELSE 0),
      files |-> scanned[p].files + (IF <<p, "files">> \in scans THEN 1 ELSE 0),
      failed |-> IF scanned[p].failed = 0 /\ ScanFailed(scans, io, p)
                 THEN scanned[p].dirs + 1 ELSE scanned[p].failed]]

\* The points the cursor is placed at: the top of the tree and, of every
\* laid out node, the line one header height below its top and its last
\* line.
CursorX == 50
RECURSIVE RowYs(_, _)
RowYs(node, oy) ==
  {oy + node.y + LINE_HEIGHT, oy + node.y + node.height - 1}
  \cup UNION {RowYs(node.children[i], oy + node.y) : i \in 1..Len(node.children)}
CursorPoints == {[x |-> CursorX, y |-> y] : y \in {0} \cup RowYs(layout, 0)}

Viewports ==
  {[x |-> 0, y |-> 0, width |-> Width, height |-> h] : h \in {LINE_HEIGHT, 100 * LINE_HEIGHT}}

InitWith(f, cfgs) ==
  /\ fs = f
  /\ \E cfg \in cfgs :
       /\ root = ViewTree(fs, cfg)
       /\ tree = TreeNew(ViewTree(fs, cfg))
  /\ layout = Node(Width, LINE_HEIGHT, <<>>)
  /\ layoutValid = TRUE
  /\ now = 0
  /\ scanned = [p \in Paths |-> [dirs |-> 0, files |-> 0, failed |-> 0]]
  /\ last = Idle

Init == InitWith(InitialFs, Configs)

\* Another process replaces an entry.
FsChange ==
  /\ last = Idle
  /\ \E f \in FsAfter(fs) : f # fs /\ fs' = f
  /\ UNCHANGED <<root, tree, layout, layoutValid, now, scanned, last>>

\* What a layout pass r leaves behind.
LaidOut(op, r, io) ==
  /\ CanCount(r.scans)
  /\ root' = r.w
  /\ tree' = r.tree
  /\ layout' = r.node
  /\ layoutValid' = TRUE
  /\ fs' = io.fsF
  /\ scanned' = Count(r.scans, io)
  /\ last' = Pass(op, None, "Ignored", <<>>, {}, {}, r.scans)
  /\ UNCHANGED now

\* The application's view() returns a new tree value and the host builds
\* its interface: Tree::diff on the root, then layout.
View ==
  /\ last = Idle
  /\ layoutValid
  /\ \E cfg \in Configs :
       \E io \in Ios(FileTreeLayout(ViewTree(fs, cfg), FileTreeDiff(ViewTree(fs, cfg), tree),
                                    Width, IoQuiet).scans) :
         LaidOut("build",
                 FileTreeLayout(ViewTree(fs, cfg), FileTreeDiff(ViewTree(fs, cfg), tree),
                                Width, io),
                 io)

\* The host lays the tree out (after an invalidation, or at any other time).
Layout ==
  /\ last = Idle
  /\ \E io \in Ios(FileTreeLayout(root, tree, Width, IoQuiet).scans) :
       LaidOut("layout", FileTreeLayout(root, tree, Width, io), io)

\* What an event pass r leaves behind.
Delivered(event, r, io, time) ==
  /\ CanCount(r.scans)
  /\ time <= MaxTime
  /\ now' = time
  /\ root' = r.w
  /\ tree' = r.tree
  /\ layoutValid' = ~r.invalidate
  /\ fs' = io.fsF
  /\ scanned' = Count(r.scans, io)
  /\ last' = Pass("event", Some(event), r.status, r.msgs, r.calls, {}, r.scans)
  /\ UNCHANGED layout

\* The choices an event pass makes, quiet being the pass without them.
DeliverAs(event, quiet) ==
  \E io \in Ios(quiet.scans), time \in Clocks(quiet.clock) :
    Delivered(event, FileTreeOnEvent(root, tree, event, layout, time, io), io, time)

\* The host delivers an event with the cursor at a point, against the
\* current layout.
Deliver(event) ==
  /\ last = Idle
  /\ layoutValid
  /\ DeliverAs(event, FileTreeOnEvent(root, tree, event, layout, now, IoQuiet))

Press == \E p \in CursorPoints : Deliver([kind |-> LeftPress, cursor |-> Some(p)])

\* The cursor moves over the first line or the last line of the tree.
MovePoints == {p \in CursorPoints : p.y \in {0, layout.height - 1}}
Move == \E p \in MovePoints : Deliver([kind |-> CursorMoved, cursor |-> Some(p)])

\* What a draw pass r leaves behind.
Drawn(r, io) ==
  /\ CanCount(r.scans)
  /\ root' = r.w
  /\ tree' = r.tree
  /\ fs' = io.fsF
  /\ scanned' = Count(r.scans, io)
  /\ last' = Pass("draw", None, "Ignored", <<>>, {}, r.drawn, r.scans)
  /\ UNCHANGED <<layout, layoutValid, now>>

\* The host draws the tree through a viewport.
Draw ==
  /\ last = Idle
  /\ layoutValid
  /\ \E viewport \in Viewports :
       \E io \in Ios(FileTreeDraw(root, tree, layout, viewport, IoQuiet).scans) :
         Drawn(FileTreeDraw(root, tree, layout, viewport, io), io)

\* The host hands the published messages to the application; the pass is
\* over.
Settle ==
  /\ last # Idle
  /\ last' = Idle
  /\ UNCHANGED <<fs, root, tree, layout, layoutValid, now, scanned>>

Next == FsChange \/ View \/ Layout \/ Press \/ Move \/ Draw \/ Settle

Spec == Init /\ [][Next]_vars

\* The double-click environment: the file system stands still and every
\* view() passes the same configuration, one of ClickConfigs.
InitClick == InitWith(ClickFs, ClickConfigs)

NextClick == Layout \/ Press \/ Settle

SpecClick == InitClick /\ [][NextClick]_vars

\* The environment that changes the root path: every view() passes the
\* same configuration and a tree on one of RootPaths.
RootPaths == {RootPath, P_a_dir}
PathConfig == Config(FALSE, TRUE, Some("S1"), None)

InitPath == InitWith(PathFs, {PathConfig})

\* view() returns a tree on a path of RootPaths and the host builds its
\* interface: Tree::diff on the root, then layout.
ViewAt ==
  /\ last = Idle
  /\ layoutValid
  /\ \E path \in {q \in RootPaths : fs[q] = "dir"} :
       \E io \in Ios(FileTreeLayout(ViewTreeAt(fs, path, PathConfig),
                                    FileTreeDiff(ViewTreeAt(fs, path, PathConfig), tree),
                                    Width, IoQuiet).scans) :
         LaidOut("build",
                 FileTreeLayout(ViewTreeAt(fs, path, PathConfig),
                                FileTreeDiff(ViewTreeAt(fs, path, PathConfig), tree),
                                Width, io),
                 io)

NextPath == ViewAt \/ Layout \/ Press \/ Settle

SpecPath == InitPath /\ [][NextPath]_vars

\* The hover environment: directories and files with both callbacks set
\* or with none, left presses, and every other mouse event at every point
\* the cursor is placed at.
HoverConfigs ==
  {Config(FALSE, TRUE, Some("S1"), Some("D1")), Config(FALSE, TRUE, None, None)}

InitHover == InitWith(HoverFs, HoverConfigs)

Hover ==
  \E p \in CursorPoints :
    \E kind \in OtherEvents :
      Deliver([kind |-> kind, cursor |-> Some(p)])

NextHover == Layout \/ Press \/ Hover \/ Settle

SpecHover == InitHover /\ [][NextHover]_vars

\* The ErrorFile environment: the application mounts an ErrorFile as an
\* element of its own (From<ErrorFile> for Element) and the host lays it
\* out, delivers events to it and draws it.
ErrPaths == {P_dev, P_m_txt, P_a_dir}
ErrWidths == {Width \div 2, Width, 2 * Width}
\* The points the cursor is placed at: inside the row (its first and its
\* last line), below it and to the right of it.
ErrPoints ==
  {[x |-> x, y |-> y] : x \in {CursorX, layout.width},
                        y \in {0, layout.height - 1, layout.height}}

InitErr ==
  /\ fs = InitialFs
  /\ \E p \in ErrPaths :
       /\ root = ErrorFileNewInner(p)
       /\ tree = ErrorFileTreeNew(ErrorFileNewInner(p))
  /\ layout = Node(0, 0, <<>>)
  /\ layoutValid = FALSE
  /\ now = 0
  /\ scanned = [p \in Paths |-> [dirs |-> 0, files |-> 0, failed |-> 0]]
  /\ last = Idle

\* What a layout pass r over the ErrorFile leaves behind.
ErrLaidOut(r) ==
  /\ tree' = r.tree
  /\ layout' = r.node
  /\ layoutValid' = TRUE
  /\ last' = Pass("layout", None, "Ignored", <<>>, {}, {}, {})
  /\ UNCHANGED <<fs, root, now, scanned>>

ErrLayout ==
  /\ last = Idle
  /\ \E width \in ErrWidths : ErrLaidOut(ErrorFileLayout(root, tree, width))

\* What an event pass r over the ErrorFile leaves behind.
ErrDelivered(event, r) ==
  /\ tree' = r.tree
  /\ layoutValid' = ~r.invalidate
  /\ last' = Pass("event", Some(event), r.status, r.msgs, r.calls, {}, {})
  /\ UNCHANGED <<fs, root, layout, now, scanned>>

ErrDeliver(event) ==
  /\ last = Idle
  /\ layoutValid
  /\ ErrDelivered(event, ErrorFileOnEvent(root, tree, event, Bounds(layout, 0, 0)))

ErrPress == \E p \in ErrPoints : ErrDeliver([kind |-> LeftPress, cursor |-> Some(p)])

ErrMove == \E p \in ErrPoints : ErrDeliver([kind |-> CursorMoved, cursor |-> Some(p)])

\* What a draw pass r over the ErrorFile leaves behind.
ErrDrawn(r) ==
  /\ tree' = r.tree
  /\ last' = Pass("draw", None, "Ignored", <<>>, {}, r.drawn, {})
  /\ UNCHANGED <<fs, root, layout, layoutValid, now, scanned>>

ErrDraw ==
  /\ last = Idle
  /\ layoutValid
  /\ ErrDrawn(ErrorFileDraw(root, tree, layout))

NextErr == ErrLayout \/ ErrPress \/ ErrMove \/ ErrDraw \/ Settle

SpecErr == InitErr /\ [][NextErr]_vars

\* The construction environment: the application calls FileTree::new on a
\* path of its choice while another process replaces an entry, and the host
\* mounts the tree it gets, if it gets one.
NewPaths == Paths \cup {FsRoot}
\* The file system of this environment: InitialFs below its root directory.
NewFs == [p \in NewPaths |-> IF p = FsRoot THEN "dir" ELSE InitialFs[p]]

InitNew ==
  /\ fs = NewFs
  /\ root = None
  /\ tree = None
  /\ layout = Node(0, 0, <<>>)
  /\ layoutValid = FALSE
  /\ now = 0
  /\ scanned = [p \in Paths |-> [dirs |-> 0, files |-> 0, failed |-> 0]]
  /\ last = Idle

\* Another process replaces the entry by one of any kind, or removes it.
NewFsChange ==
  /\ last = Idle
  /\ \E p \in Mutable, k \in Kinds : fs[p] # k /\ fs' = [fs EXCEPT ![p] = k]
  /\ UNCHANGED <<root, tree, layout, layoutValid, now, scanned, last>>

\* What the call FileTree::new(path) with the result r leaves behind: the
\* host mounts the tree of a Some, and has nothing to mount for a None or
\* for a call that panicked (r is None then: nothing was returned).
Constructed(path, r, panicked) ==
  /\ root' = IF r = None THEN root ELSE r
  /\ tree' = IF r = None THEN tree ELSE Some(TreeNew(r[1]))
  /\ last' = Pass("new", Some([path |-> path, result |-> r, panicked |-> panicked]),
                  "Ignored", <<>>, {}, {}, {})
  /\ UNCHANGED <<fs, layout, layoutValid, now, scanned>>

New ==
  /\ last = Idle
  /\ \E path \in NewPaths :
       IF FileTreeNewPanics(fs, path)
       THEN Constructed(path, None, TRUE)
       ELSE Constructed(path, FileTreeNew(fs, path), FALSE)

NextNew == NewFsChange \/ New \/ Settle

SpecNew == InitNew /\ [][NextNew]_vars

\* ------------------------------------------------------------ observations
\* The child list a directory state holds once it is populated.
Cached(state) ==
  (IF state.dirs = None THEN <<>> ELSE state.dirs[1])
  \o (IF state.files = None THEN <<>> ELSE state.files[1])
Populated(state) == state.dirs # None /\ state.files # None

\* The directory states of the part of the tree under t, t being the state
\* of the directory w: each with its path, its depth-first position and the
\* layout node at that position (None where the layout has none).
RECURSIVE DirStates(_, _, _, _)
DirStates(w, t, pos, node) ==
  {[path |-> w.path, widget |-> w, state |-> t.state, pos |-> pos,
    node |-> node, nchildren |-> Len(t.children)]}
  \cup UNION {DirStates(Cached(t.state)[i], t.children[i], Append(pos, i),
                        IF node # None /\ i <= Len(node[1].children)
                        THEN Some(node[1].children[i]) ELSE None)
              : i \in {j \in 1..Min(Len(Cached(t.state)), Len(t.children)) :
                         Cached(t.state)[j].kind = "dir"}}
AllDirStates == DirStates(root, tree, <<>>, Some(layout))
\* The paths of the directories that are open, and of those that are not.
OpenDirs == {d.path : d \in {e \in AllDirStates : e.state.open}}
StateOf(path) == CHOOSE d \in AllDirStates : d.path = path
HasState(path) == \E d \in AllDirStates : d.path = path

\* ---------------------------------------------------------------- claim C1
\* C1 (as claimed): whatever toggles, layouts, diffs, events and draws
\* happen, the path of a directory is enumerated at most once: neither the
\* directory scan nor the file scan of a path ever runs a second time.
C1_EnumeratedAtMostOnce ==
  \A p \in Paths : scanned[p].dirs <= 1 /\ scanned[p].files <= 1

\* ---------------------------------------------------------------- claim C2
\* The cells of a directory state that lives on from t to u (the same
\* position of the widget tree, below states that live on) hold in u what
\* they held in t.
RECURSIVE CellsKept(_, _)
CellsKept(t, u) ==
  IF t.tag # "dir::State" \/ u.tag # t.tag THEN TRUE
  ELSE /\ t.state.dirs # None => u.state.dirs = t.state.dirs
       /\ t.state.files # None => u.state.files = t.state.files
       /\ \A i \in 1..Min(Len(t.children), Len(u.children)) :
            CellsKept(t.children[i], u.children[i])

\* Opening a populated directory presents the list its state holds,
\* whatever the file system holds by then.
PresentsCached ==
  \A d \in AllDirStates :
    Populated(d.state) =>
      \A io \in Ios({<<d.path, "dirs">>}) :
        InitChildren(d.widget, [d.state EXCEPT !.open = TRUE], io).children
          = Cached(d.state)

\* C2: once the child list of a directory is populated, no step replaces it
\* while the directory's state lives, and every later open presents that
\* list, the same children in the same order, even when the file system
\* has changed since.
C2_CachedListNeverReplaced ==
  [][CellsKept(tree, tree') /\ PresentsCached']_vars

\* C2 witness: a press has just re-opened a_dir, whose state already holds
\* its list with B as a directory, while the file system no longer has a
\* directory B.
C2_Witness ==
  /\ last.op = "event"
  /\ \E c \in last.calls : c.path = P_a_dir /\ c.toggled
  /\ HasState(P_a_dir)
  /\ StateOf(P_a_dir).state.open
  /\ Populated(StateOf(P_a_dir).state)
  /\ \E i \in 1..Len(Cached(StateOf(P_a_dir).state)) :
       /\ Cached(StateOf(P_a_dir).state)[i].path = P_B
       /\ Cached(StateOf(P_a_dir).state)[i].kind = "dir"
  /\ fs[P_B] # "dir"

\* ---------------------------------------------------------------- claim C3
\* The paths below a directory that is not open (or has no state).
UnderClosed(path) ==
  \E n \in 1..(Len(path) - 1) : SubSeq(path, 1, n) \notin OpenDirs

\* C3: a closed directory presents no children to any pass, expanded
\* before or not: in the layout the passes run against its node has no
\* child nodes, no on_event of a pass was invoked on anything below it and
\* no message of a pass is about a file below it, and no draw of a pass
\* painted anything below it.
C3_ClosedPresentsNoChildren ==
  /\ layoutValid =>
       \A d \in AllDirStates :
         ~d.state.open /\ d.node # None => d.node[1].children = <<>>
  /\ \A c \in last.calls : ~UnderClosed(c.path)
  /\ \A i \in 1..Len(last.msgs) : ~UnderClosed(last.msgs[i].path)
  /\ \A p \in last.drawn : ~UnderClosed(p)

\* C3 witness: a press was delivered to a_dir while it was closed after
\* having been expanded (its state holds its list): a_dir ignored it.
C3_Witness ==
  /\ last.op = "event"
  /\ last.event[1].kind = LeftPress
  /\ HasState(P_a_dir)
  /\ ~StateOf(P_a_dir).state.open
  /\ Populated(StateOf(P_a_dir).state)
  /\ Cached(StateOf(P_a_dir).state) # <<>>
  /\ \E c \in last.calls : c.path = P_a_dir /\ ~c.toggled /\ c.status = "Ignored"

\* ---------------------------------------------------------------- claim C4
\* The directories the pass in flight has enumerated.
EnumeratedNow ==
  {d \in AllDirStates :
     {<<d.path, "dirs">>, <<d.path, "files">>} \subseteq last.scans}
\* The entries of a directory that are files or directories and that no
\* other process touches.
Classified(path) ==
  {e \in Paths \ Mutable : Parent(e) = path /\ fs[e] \in {"file", "dir"}}
CachedPaths(state) == {Cached(state)[i].path : i \in 1..Len(Cached(state))}

\* C4 (as claimed): the child list a directory is enumerated to holds, with
\* show_hidden = false, exactly the files and directories whose name does
\* not start with a dot and, with show_hidden = true, all of them.
C4_HiddenFiltering ==
  \A d \in EnumeratedNow :
    CachedPaths(d.state) \ Mutable
      = {e \in Classified(d.path) :
           d.widget.show_hidden \/ ~StartsWithDot(FileName(e))}

\* ---------------------------------------------------------------- claim C5
\* C5: the child list of an opened directory has all directories before all
\* files and, within each of the two groups, the names ascending under
\* case-insensitive comparison.
C5_DirsFirstThenByName ==
  \A d \in AllDirStates :
    \A i, j \in 1..Len(Cached(d.state)) :
      i < j =>
        /\ Cached(d.state)[i].kind = "file" => Cached(d.state)[j].kind = "file"
        /\ Cached(d.state)[i].kind = Cached(d.state)[j].kind =>
             ~BytesLess(LowerName(FileName(Cached(d.state)[j].path)),
                        LowerName(FileName(Cached(d.state)[i].path)))

\* C5 witness: the root is open and its list is a_dir/, C_d/, m.txt, Z.txt,
\* enumerated after the file system listed them in another order.
C5_Witness ==
  /\ tree.state.open
  /\ last.op = "layout"
  /\ <<RootPath, "dirs">> \in last.scans
  /\ MapN(LAMBDA i : Cached(tree.state)[i].path, Len(Cached(tree.state)))
       = <<P_a_dir, P_C_d, P_m_txt, P_Z_txt>>

\* ---------------------------------------------------------------- claim C6
\* The cursor of the event of the pass in flight is inside the rectangle b,
\* at most one row height below its top.
OnHeader(pass, b) ==
  /\ pass.event[1].cursor # None
  /\ Contains(b, pass.event[1].cursor[1])
  /\ pass.event[1].cursor[1].y - b.y <= LINE_HEIGHT
IsBelow(path, dir) ==
  Len(path) > Len(dir) /\ SubSeq(path, 1, Len(dir)) = dir

RECURSIVE FileStates(_, _)
FileStates(w, t) ==
  UNION {IF Cached(t.state)[i].kind = "file"
         THEN {[path |-> Cached(t.state)[i].path, widget |-> Cached(t.state)[i],
                state |-> t.children[i].state]}
         ELSE FileStates(Cached(t.state)[i], t.children[i])
         : i \in 1..Min(Len(Cached(t.state)), Len(t.children))}
AllFileStates == FileStates(root, tree)
FileStateOf(path) == (CHOOSE f \in AllFileStates : f.path = path).state

\* A pass that delivers a left press.
IsPress(pass) == pass.op = "event" /\ pass.event[1].kind = LeftPress
Cursor(pass) == pass.event[1].cursor[1]
\* The on_event calls of files that the press of the pass was inside of.
Accepted(pass) ==
  {c \in pass.calls : c.widget = "file" /\ Contains(c.bounds, Cursor(pass))}
\* How many of the messages of the pass are m.
Published(pass, m) == Cardinality({i \in 1..Len(pass.msgs) : pass.msgs[i] = m})

FileWidgetOf(path) == (CHOOSE f \in AllFileStates : f.path = path).widget
\* The callbacks in the cells of the file at a path.
SingleOf(path) == FileWidgetOf(path).on_single_click
DoubleOf(path) == FileWidgetOf(path).on_double_click

C8_DoubleClickDetection ==
  [][IsPress(last') =>
       \A c \in Accepted(last') :
         SingleOf(c.path) # None /\ DoubleOf(c.path) # None =>
           /\ Published(last', Message(SingleOf(c.path)[1], c.path)) = 1
           /\ Published(last', Message(DoubleOf(c.path)[1], c.path))
                = IF FileStateOf(c.path)'.last_click[1].kind = "Double"
                  THEN 1 ELSE 0
           /\ FileStateOf(c.path).last_click = None =>
                Published(last', Message(DoubleOf(c.path)[1], c.path)) = 0
           /\ /\ FileStateOf(c.path).last_click # None
              /\ FileStateOf(c.path).last_click[1].kind = "Single"
              /\ FileStateOf(c.path).last_click[1].position = Cursor(last')
              => Published(last', Message(DoubleOf(c.path)[1], c.path))
                   = IF now' - FileStateOf(c.path).last_click[1].time
                          <= DoubleClickTime
                     THEN 1 ELSE 0]_vars

\* C8 witness: the second of two presses on m.txt at one position, within
\* the double-click time, has published both messages.
C8_Witness ==
  /\ IsPress(last)
  /\ \E c \in Accepted(last) :
       /\ c.path = P_m_txt
       /\ SingleOf(c.path) # None
       /\ DoubleOf(c.path) # None
       /\ FileStateOf(c.path).last_click # None
       /\ FileStateOf(c.path).last_click[1].kind = "Double"
       /\ FileStateOf(c.path).last_click[1].time = DoubleClickTime + DoubleClickTime
       /\ last.msgs = <<Message(SingleOf(c.path)[1], c.path),
                        Message(DoubleOf(c.path)[1], c.path)>>

C10_MessagesUseRootCallback ==
  IsPress(last) =>
    \A i \in 1..Len(last.msgs) :
      \E c \in Accepted(last) :
        \/ /\ root.on_single_click # None
           /\ last.msgs[i] = Message(root.on_single_click[1], c.path)
        \/ /\ root.on_double_click # None
           /\ last.msgs[i] = Message(root.on_double_click[1], c.path)

\* --------------------------------------------------------------- claim C11
\* C11: a left press inside the row of a file that has neither a
\* single-click nor a double-click callback publishes no message; the
\* handler returns normally (Captured) and the pass publishes nothing at
\* all.
C11_AbsentCallbacksNoOp ==
  IsPress(last) =>
    \A c \in Accepted(last) :
      SingleOf(c.path) = None /\ DoubleOf(c.path) = None =>
        /\ last.msgs = <<>>
        /\ c.status = "Captured"
        /\ last.status = "Captured"

\* C11 witness: m.txt, without callbacks, was pressed.
C11_Witness ==
  /\ IsPress(last)
  /\ \E c \in Accepted(last) :
       /\ c.path = P_m_txt
       /\ SingleOf(c.path) = None
       /\ DoubleOf(c.path) = None
       /\ c.status = "Captured"
  /\ last.msgs = <<>>

\* --------------------------------------------------------------- claim C12
\* C12 (as claimed): when the enumeration of an opened directory's path
\* fails, the directory presents an empty child list and the failure is
\* final: no later open enumerates that path again.
C12_FailedEnumerationIsFinal ==
  \A p \in Paths :
    scanned[p].failed # 0 =>
      /\ scanned[p].dirs = scanned[p].failed
      /\ \A d \in AllDirStates :
           d.path = p /\ Populated(d.state) => Cached(d.state) = <<>>

\* --------------------------------------------------------------- claim C13
\* The entries of a directory that are neither a regular file nor a
\* directory.
Unclassified(path) == {e \in Paths : Parent(e) = path /\ fs[e] = "other"}
\* The positions of the cached list that hold an ErrorFile of the entry e.
ErrorEntriesOf(state, e) ==
  {i \in 1..Len(Cached(state)) : Cached(state)[i] = ErrorFileNewInner(e)}

\* C13 (as claimed): the child list a directory is enumerated to holds
\* exactly one ErrorEntry for every entry that is neither a regular file nor
\* a directory (with hidden entries shown, or the name not starting with a
\* dot).
C13_OtherEntryIsErrorEntry ==
  \A d \in EnumeratedNow :
    \A e \in Unclassified(d.path) :
      d.widget.show_hidden \/ ~StartsWithDot(LowerName(FileName(e)))
        => Cardinality(ErrorEntriesOf(d.state, e)) = 1

\* --------------------------------------------------------------- claim C14
\* C14: an ErrorEntry is inert. Every event delivered to it returns Ignored
\* and publishes no message (it holds no click callback to invoke), it has
\* no children, and once laid out it is exactly one row high.
C14_ErrorEntryInert ==
  /\ root.kind = "error"
  /\ last.op = "event" =>
       /\ last.status = "Ignored"
       /\ last.msgs = <<>>
       /\ \A c \in last.calls : c.status = "Ignored" /\ ~c.toggled
  /\ ErrorFileChildren(root) = <<>>
  /\ tree.children = <<>>
  /\ layoutValid => layout.height = TextLineHeight /\ layout.children = <<>>
C14_Witness ==
  /\ root = ErrorFileNewInner(P_dev)
  /\ layoutValid
  /\ last.op = "event"
  /\ last.event[1].kind = LeftPress
  /\ Contains(Bounds(layout, 0, 0), last.event[1].cursor[1])
  /\ last.status = "Ignored"

\* --------------------------------------------------------------- claim C15
\* C15: FileTree::new on a path that is not a readable directory returns
\* None, no node being created; it returns a tree only when the path can be
\* enumerated, and then a closed directory node on that very path.
C15_NewOnlyOnReadableDir ==
  last.op = "new" =>
    /\ fs[last.event[1].path] # "dir" => last.event[1].result = None
    /\ last.event[1].result # None =>
         /\ ReadDir(fs, last.event[1].path, Universe) # None
         /\ last.event[1].result[1].kind = "dir"
         /\ last.event[1].result[1].path = last.event[1].path
         /\ root = last.event[1].result
    /\ root # None => root[1].kind = "dir"
C15_Witness ==
  /\ last.op = "new"
  /\ last.event[1].path = P_B
  /\ fs[P_B] = "file"
  /\ last.event[1].result = None
  /\ root # None
  /\ root[1].path = RootPath

\* --------------------------------------------------------------- claim C16
\* The layout of the directory of the state d, were it closed now.
ClosedLayoutOf(d) ==
  DirLayout(d.widget,
            [tag |-> "dir::State", state |-> [d.state EXCEPT !.open = FALSE],
             children |-> <<>>],
            Width, IoQuiet).node

\* C16: in every reachable state the layout node of a closed directory is
\* one row (LINE_HEIGHT) high, as wide as the parent offered and without
\* children, whatever child list the directory has cached and whatever
\* child states it still holds; closing any directory gives that node.
C16_ClosedIsOneRow ==
  /\ layoutValid =>
       \A d \in AllDirStates :
         ~d.state.open /\ d.node # None =>
           d.node[1] = Translate(Node(Width, LINE_HEIGHT, <<>>), d.node[1].x, d.node[1].y)
  /\ \A d \in AllDirStates : ClosedLayoutOf(d) = Node(Width, LINE_HEIGHT, <<>>)
C16_Witness ==
  /\ layoutValid
  /\ last.op = "layout"
  /\ \E d \in AllDirStates :
       /\ d.path = RootPath
       /\ ~d.state.open
       /\ Len(Cached(d.state)) > 1
       /\ d.nchildren > 1
       /\ d.node # None
       /\ d.node[1].height = LINE_HEIGHT

\* --------------------------------------------------------------- claim C17
\* The heights of the first n of the nodes, added up.
RECURSIVE HeightsOf(_, _)
HeightsOf(nodes, n) ==
  IF n = 0 THEN 0 ELSE HeightsOf(nodes, n - 1) + nodes[n].height

C18_Laziness ==
  /\ ~DirStateDefault.open
  /\ \A s \in last.scans :
       \E d \in AllDirStates : d.path = s[1] /\ d.state.open
  /\ \A d \in AllDirStates :
       /\ scanned[d.path].dirs = 0 => d.state.dirs = None /\ d.widget.dirs = None
       /\ scanned[d.path].files = 0 => d.state.files = None /\ d.widget.files = None
  /\ OpenDirs = {} => last.scans = {}
C18_Witness ==
  /\ last.op = "layout"
  /\ last.scans = {<<P_a_dir, "dirs">>, <<P_a_dir, "files">>}
  /\ HasState(P_B) /\ ~StateOf(P_B).state.open
  /\ scanned[P_B].dirs = 0 /\ scanned[P_C_d].dirs = 0
  /\ StateOf(P_a_dir).state.open

\* --------------------------------------------------------------- claim C19
\* Reconciliation has reached the directory of the state d in the pass just
\* made: a nested directory is reconciled by the layout of its open parent,
\* the root by the host when it builds the interface.
Reconciled(d) ==
  IF d.path = RootPath THEN last.op = "build"
  ELSE last.op \in {"build", "layout"} /\ d.node # None

\* C19 (as claimed): once reconciliation has run over a collapsed directory,
\* nested or root, the tree holds no state of any node beneath it.
C19_CollapseDiscardsBeneath ==
  \A d \in AllDirStates :
    ~d.state.open /\ Reconciled(d) => d.nchildren = 0
\* The part of C19 about nested directories.
C19_NestedOnly ==
  \A d \in AllDirStates :
    d.path # RootPath /\ ~d.state.open /\ Reconciled(d) => d.nchildren = 0

\* --------------------------------------------------------------- claim C20
\* The state is the default one of a directory, nothing beneath it.
FreshDir(t) ==
  t.tag = "dir::State" /\ t.state = DirStateDefault /\ t.children = <<>>
\* The state u is the state t kept: the open flag and the filled cells.
ReusedDir(t, u) ==
  /\ u.tag = t.tag
  /\ u.state.open = t.state.open
  /\ t.state.dirs # None => u.state.dirs = t.state.dirs
  /\ t.state.files # None => u.state.files = t.state.files

\* C20 (as claimed): after reconciliation the state list of an open
\* directory is as long as its child list, and the state at a position is
\* the old one exactly when the new node there has the kind and the path
\* of the old one, a fresh default state (closed, empty cache) otherwise;
\* stated for the position of the root, which the host reconciles when it
\* builds the interface.
C20_ReuseIffSameKindAndPath ==
  [][last'.op = "build" =>
       /\ \A d \in AllDirStates' :
            d.state.open /\ d.node # None => d.nchildren = Len(Cached(d.state))
       /\ IF root'.kind = root.kind /\ root'.path = root.path
          THEN ReusedDir(tree, tree')
          ELSE FreshDir(tree')]_vars

\* --------------------------------------------------------------- claim C21
\* C21: in every state reached after a layout, an open directory that was
\* laid out has as many child states as it has child layout nodes and as
\* its child list has entries, so that the zips of on_event and draw pair
\* every child with its own state and its own node and drop none.
C21_ChildrenStatesNodesAligned ==
  layoutValid =>
    \A d \in AllDirStates :
      d.state.open /\ d.node # None =>
        /\ d.nchildren = Len(Cached(d.state))
        /\ Len(d.node[1].children) = Len(Cached(d.state))
        /\ \A i \in 1..Len(Cached(d.state)) :
             Cached(d.state)[i].kind = "dir"
               => \E e \in AllDirStates :
                    /\ e.pos = Append(d.pos, i)
                    /\ e.path = Cached(d.state)[i].path
                    /\ e.node = Some(d.node[1].children[i])
C21_Witness ==
  /\ layoutValid
  /\ last.op = "draw"
  /\ P_x_txt \in last.drawn
  /\ \E d \in AllDirStates :
       /\ d.path = P_a_dir /\ d.state.open /\ d.node # None
       /\ d.nchildren = 2 /\ Len(d.node[1].children) = 2
       /\ Len(Cached(d.state)) = 2

\* --------------------------------------------------------------- claim C22
\* The on_event calls of the pass on the children of the directory at path.
ChildCalls(pass, path) == {c \in pass.calls : Parent(c.path) = path}

\* C22: an event that an open directory's on_event does not take as a press
\* on its header is offered to every child of the directory, also to those
\* after a child that captured it, and the directory returns Captured
\* exactly when one of its children did.
C22_ForwardedToEveryChild ==
  last.op = "event" =>
    \A c \in last.calls :
      c.widget = "dir" /\ ~c.toggled /\ StateOf(c.path).state.open =>
        /\ \A i \in 1..Len(Cached(StateOf(c.path).state)) :
             \E c2 \in ChildCalls(last, c.path) :
               /\ c2.path = Cached(StateOf(c.path).state)[i].path
               /\ c2.widget = Cached(StateOf(c.path).state)[i].kind
        /\ c.status = "Captured"
             <=> \E c2 \in ChildCalls(last, c.path) : c2.status = "Captured"
C22_Witness ==
  /\ IsPress(last)
  /\ \E c \in last.calls, c1 \in last.calls, c4 \in last.calls :
       /\ c.path = RootPath /\ ~c.toggled /\ c.status = "Captured"
       /\ c1.path = P_a_dir /\ c1.toggled /\ c1.status = "Captured"
       /\ c4.path = P_Z_txt /\ c4.status = "Ignored"
  /\ Len(Cached(StateOf(RootPath).state)) = 4

\* --------------------------------------------------------------- claim C23
\* C23: when the host builds the interface from a new tree value, whatever
\* its show_hidden and show_extensions settings, every directory state that
\* lives on keeps the lists it holds, no path whose state holds its lists is
\* enumerated, and the open root presents the list of its state, entry by
\* entry, as it was cached.
C23_MemoizedListUnconditional ==
  [][last'.op = "build" =>
       /\ CellsKept(tree, tree')
       /\ \A d \in AllDirStates :
            Populated(d.state) =>
              {<<d.path, "dirs">>, <<d.path, "files">>} \cap last'.scans = {}
       /\ Populated(tree.state) /\ tree'.state.open =>
            /\ GetChildren(root') = Cached(tree.state)
            /\ Len(layout'.children) = Len(Cached(tree.state))]_vars
C23_Witness ==
  /\ last.op = "build"
  /\ root.show_hidden
  /\ tree.state.open
  /\ Len(Cached(tree.state)) = 4
  /\ \A i \in 1..4 : ~Cached(tree.state)[i].kind = "dir" \/ ~Cached(tree.state)[i].show_hidden
  /\ Len(layout.children) = 4
  /\ scanned[RootPath].dirs = 1

\* --------------------------------------------------------------- claim C24
\* C24: an event that is no left press is ignored by the tree and by every
\* directory and file it reaches, toggles nothing, publishes no message,
\* leaves the layout valid and leaves the whole persistent tree (open
\* flags, last_click, cached lists) as it was.
C24_OnlyLeftPressActs ==
  [][last'.op = "event" /\ last'.event[1].kind # LeftPress =>
       /\ last'.status = "Ignored"
       /\ \A c \in last'.calls : c.status = "Ignored" /\ ~c.toggled
       /\ last'.msgs = <<>>
       /\ tree' = tree
       /\ layoutValid']_vars
\* A right press inside the row of a file that was clicked before, offered
\* to the open directory above it as well.
C24_Witness ==
  /\ last.op = "event"
  /\ last.event[1].kind = "ButtonPressed(Right)"
  /\ \E c \in last.calls :
       /\ c.path = P_m_txt /\ c.widget = "file"
       /\ Contains(c.bounds, last.event[1].cursor[1])
  /\ \E c \in last.calls : c.path = P_C_d /\ c.widget = "dir"
  /\ StateOf(P_C_d).state.open
  /\ FileStateOf(P_m_txt).last_click # None

\* --------------------------------------------------------------- claim C25
\* The children of the open directories under t that the layout holds a
\* node for, each with its path and its bounds on the screen.
RECURSIVE LaidOutChildren(_, _, _, _)
LaidOutChildren(t, node, ox, oy) ==
  IF ~t.state.open THEN {}
  ELSE UNION {{[path |-> Cached(t.state)[i].path,
                bounds |-> Bounds(node.children[i], ox + node.x, oy + node.y)]}
              \cup (IF Cached(t.state)[i].kind = "dir"
                    THEN LaidOutChildren(t.children[i], node.children[i],
                                         ox + node.x, oy + node.y)
                    ELSE {})
              : i \in 1..Min(Min(Len(Cached(t.state)), Len(t.children)),
                             Len(node.children))}
\* The children the open directories hold in their lists, the directories
\* being those that are open below open directories only.
ListedChildren ==
  UNION {{Cached(d.state)[i].path : i \in 1..Len(Cached(d.state))}
         : d \in {e \in AllDirStates : e.state.open /\ ~UnderClosed(e.path)}}

C26_OneToggleNoMessage ==
  [][IsPress(last') =>
       /\ Cardinality({d \in AllDirStates :
                         \E e \in AllDirStates' :
                           e.pos = d.pos /\ e.state.open # d.state.open}) <= 1
       /\ Cardinality({c \in last'.calls : c.toggled}) <= 1
       /\ (\E c \in last'.calls : c.toggled) => last'.msgs = <<>>]_vars
\* A press on the line one header height below the top of a_dir, open with
\* its children laid out from that line on, has closed a_dir.
C26_Witness ==
  /\ IsPress(last)
  /\ \E c \in last.calls :
       /\ c.path = P_a_dir /\ c.toggled
       /\ Cursor(last).y = c.bounds.y + LINE_HEIGHT
       /\ c.bounds.height > LINE_HEIGHT
  /\ \E d \in AllDirStates :
       /\ d.path = P_a_dir /\ ~d.state.open
       /\ d.node # None /\ Len(d.node[1].children) = 2
       /\ d.node[1].children[1].y = LINE_HEIGHT
  /\ last.msgs = <<>>

\* --------------------------------------------------------------- claim C27
\* No path is held twice by the child list of a directory.
C27_NoPathTwice ==
  \A d \in AllDirStates :
    \A i, j \in 1..Len(Cached(d.state)) :
      Cached(d.state)[i].path = Cached(d.state)[j].path => i = j
\* Every entry that no other process touches, that is a file or a directory
\* and whose name starts with no dot is held by the list a directory was
\* enumerated to under show_hidden = false.
C27_StableEntriesListed ==
  \A d \in EnumeratedNow :
    ~d.widget.show_hidden =>
      {e \in Classified(d.path) : ~StartsWithDot(FileName(e))}
        \subseteq CachedPaths(d.state)
\* C27 (as claimed): the child list of a directory holds no path more than
\* once and holds every entry that is there as a file or a directory all
\* through the enumeration, other processes changing the file system or
\* not.
C27_ListIsSetOfStableEntries ==
  C27_NoPathTwice /\ C27_StableEntriesListed
\* The entry B of a_dir is in the list of a_dir as a directory and as a
\* file.
C27_ListedTwice ==
  /\ HasState(P_a_dir)
  /\ \E i, j \in 1..Len(Cached(StateOf(P_a_dir).state)) :
       /\ Cached(StateOf(P_a_dir).state)[i].path = P_B
       /\ Cached(StateOf(P_a_dir).state)[j].path = P_B
       /\ Cached(StateOf(P_a_dir).state)[i].kind = "dir"
       /\ Cached(StateOf(P_a_dir).state)[j].kind = "file"

\* --------------------------------------------------------------- claim C28
\* C28 (as claimed): whatever the path, the root of the file system
\* included, FileTree::new returns (a tree or None) and never panics.
C28_NewNeverAborts ==
  last.op = "new" => ~last.event[1].panicked
\* On every path that has a final component FileTree::new returns.
C28_NewReturnsOnNamedPaths ==
  last.op = "new" /\ last.event[1].path # FsRoot => ~last.event[1].panicked

\* --------------------------------------------------------------- claim C29
\* C29: an on_event call on a file returns Captured exactly when the event
\* is a left press with the cursor inside the bounds of the file's row,
\* callbacks set or not; every other call on a file returns Ignored.
C29_FileCapturesIffPressedInside ==
  last.op = "event" =>
    \A c \in last.calls :
      c.widget = "file" =>
        /\ c.status \in {"Captured", "Ignored"}
        /\ c.status = "Captured"
             <=> /\ last.event[1].kind = LeftPress
                 /\ last.event[1].cursor # None
                 /\ Contains(c.bounds, last.event[1].cursor[1])
\* A left press inside the row of a file that has no callback: captured,
\* nothing published.
C29_Witness ==
  /\ IsPress(last)
  /\ \E c \in last.calls :
       /\ c.path = P_m_txt /\ c.widget = "file"
       /\ Contains(c.bounds, Cursor(last))
       /\ c.status = "Captured"
  /\ SingleOf(P_m_txt) = None /\ DoubleOf(P_m_txt) = None
  /\ last.msgs = <<>>
  /\ last.status = "Captured"

\* --------------------------------------------------------------- claim C30
\* The nodes of the open directories of the layout, at any depth.
RECURSIVE OpenNodes(_)
OpenNodes(node) ==
  (IF node.children = <<>> THEN {} ELSE {node})
  \cup UNION {OpenNodes(node.children[i]) : i \in 1..Len(node.children)}
\* The children of a directory node are stacked below its header without
\* overlap and end where the node ends.
C30_ChildrenStackedInside ==
  layoutValid =>
    \A n \in OpenNodes(layout) :
      /\ \A i \in 1..Len(n.children) :
           /\ n.children[i].y >= LINE_HEIGHT
           /\ n.children[i].y + n.children[i].height <= n.height
      /\ \A i, j \in 1..Len(n.children) :
           i < j => n.children[i].y + n.children[i].height <= n.children[j].y
\* No child of a directory node reaches to the right of the node.
C30_ChildrenWithinWidth ==
  layoutValid =>
    \A n \in OpenNodes(layout) :
      \A i \in 1..Len(n.children) :
        /\ n.children[i].x >= 0
        /\ n.children[i].x + n.children[i].width <= n.width
\* C30 (as claimed): in the layout of an open directory, at any depth, the
\* rectangle of every child lies inside the directory's: the children are
\* vertically disjoint, within the directory's height and not wider than
\* the width the directory was offered.
C30_ChildrenInsideDirectory ==
  C30_ChildrenStackedInside /\ C30_ChildrenWithinWidth
====
